---- MODULE Spec2Model ----
(***************************************************************************)
(* A model of the badminton club manager: the relational store (players,   *)
(* sessions, courts, attendances, payments, dropout refunds), the derived  *)
(* money figures of models.py and the request handlers of app.py.          *)
(*                                                                         *)
(* Money is kept in integer cents.  A quotient such as                     *)
(* total_cost / attendee_count is kept as an exact fraction <<num, den>>   *)
(* and round(x, 2) is Round2 on that fraction.  The costs used are whole   *)
(* currency units and at most seven players attend a session, so no value  *)
(* that is rounded lies exactly half way between two cents and the         *)
(* direction a binary float would take on a tie plays no part.             *)
(***************************************************************************)
EXTENDS Integers, Sequences, FiniteSets, Bags, TLC

\* ------------------------------------------------------------------ bounds

NumPlayers == 3
MaxSessions == 2
MaxCourts == 2
MaxPayments == 2
MaxRefunds == 2
MaxRequests == 2
MaxBirdies == 4
NumDates == 2

\* --------------------------------------------------------------- constants

KID_FLAT_RATE == 1100

Players == 1..NumPlayers
SessionIds == 1..MaxSessions
Dates == 1..NumDates
None == 0

AdminStatuses == {"YES", "NO", "TENTATIVE", "DROPOUT", "FILLIN"}
PlayerStatuses == {"YES", "NO", "TENTATIVE"}
Categories == {"regular", "adhoc", "kid"}
RefundStates == {"pending", "processed", "cancelled"}

VARIABLES
    players,        \* players table: id -> [category, managed_by, is_active, is_admin]
    sessions,       \* sessions table: id -> [date, birdie_cost, is_archived, voting_frozen]
    courts,         \* courts table: bag of [session_id, cost, court_type]
    attendances,    \* attendances table: bag of [player_id, session_id, status, category]
    payments,       \* payments table: set of [id, player_id, amount, method, notes, credit_of]
    refunds,        \* dropout_refunds table: set of rows with ids
    birdie_bank,    \* birdie_bank table: set of [id, transaction_type, quantity, cost]
    next_id,        \* the sequences behind the autoincrement primary keys
    requests,       \* attendance upserts in flight: slot -> request record
    last            \* the most recent request and the response it was given

vars == <<players, sessions, courts, attendances, payments, refunds, birdie_bank,
          next_id, requests, last>>

store == <<players, sessions, courts, attendances, payments, refunds, birdie_bank,
           next_id>>

\* ------------------------------------------------------------- arithmetic

RECURSIVE SumOver(_, _)
\* sum of f[x] over the elements x of S
SumOver(f, S) ==
    IF S = {} THEN 0
    ELSE LET x == CHOOSE y \in S : TRUE
         IN  f[x] + SumOver(f, S \ {x})

\* sum of f[x] over the domain of f
Sum(f) == SumOver(f, DOMAIN f)

\* sum of f[row] over the rows of bag B in the domain of f, every copy counted
BagSum(B, f) == Sum([r \in DOMAIN f |-> f[r] * CopiesIn(r, B)])

\* the number of rows of bag B among rows, every copy counted
BagCount(B, rows) == BagSum(B, [r \in rows |-> 1])

\* Python's round(num/den, 2) on an amount of cents: the nearest cent
Round2(num, den) ==
    LET q == num \div den
        r == num % den
    IN  IF 2 * r < den THEN q
        ELSE IF 2 * r > den THEN q + 1
        ELSE IF q % 2 = 0 THEN q ELSE q + 1

FracAdd(a, b) == <<a[1] * b[2] + b[1] * a[2], a[2] * b[2]>>

\* ------------------------------------------------------------------ tables

\* The roster: players registered as 'regular' (register, seed.py) whose category
\* and manager an admin has since edited (edit_player), so that every category
\* and a managed player are present: 1 regular, 2 kid managed by 1, 3 adhoc, ...
RosterCategory(p) ==
    CASE p % 3 = 1 -> "regular"
      [] p % 3 = 2 -> "kid"
      [] OTHER -> "adhoc"

InitPlayers ==
    [p \in Players |->
        [category |-> RosterCategory(p),
         managed_by |-> IF RosterCategory(p) = "kid" THEN p - 1 ELSE None,
         is_active |-> TRUE,
         is_admin |-> FALSE]]

CourtsOf(s) == {c \in BagToSet(courts) : c.session_id = s}

AttendancesOf(p, s) ==
    {a \in BagToSet(attendances) : a.player_id = p /\ a.session_id = s}

\* Attendance.__table_args__: unique_player_session
UniqueIgnored(att) == TRUE

unique_player_session(att) ==
    \A a \in BagToSet(att) :
        BagCount(att, {r \in BagToSet(att) :
                          r.player_id = a.player_id /\ r.session_id = a.session_id}) = 1

\* the foreign keys of an attendance row
AttendanceForeignKeys(att) ==
    \A a \in BagToSet(att) : a.player_id \in DOMAIN players /\ a.session_id \in DOMAIN sessions

\* ------------------------------------------------------------ models.py

\* Session.get_attendee_count on a given attendances table
AttendeeCountIn(att, s) ==
    BagCount(att, {a \in BagToSet(att) : a.session_id = s /\ a.status = "YES"})

get_attendee_count(s) == AttendeeCountIn(attendances, s)

\* Session.get_total_cost on a given courts table
TotalCostIn(crt, s) ==
    BagSum(crt, [c \in {x \in BagToSet(crt) : x.session_id = s} |-> c.cost])

get_total_cost_regular_only(s) ==
    BagSum(courts, [c \in {x \in CourtsOf(s) : x.court_type = "regular"} |-> c.cost])

get_total_cost(s) == TotalCostIn(courts, s)

\* Session.get_cost_per_player on given tables
CostPerPlayerIn(att, crt, birdie_cost, s) ==
    LET attendee_count == AttendeeCountIn(att, s)
    IN  IF attendee_count = 0 THEN 0
        ELSE Round2(TotalCostIn(crt, s) + birdie_cost * attendee_count, attendee_count)

get_cost_per_player_no_birdie(s) ==
    LET attendee_count == get_attendee_count(s)
    IN  IF attendee_count = 0 THEN 0
        ELSE Round2(get_total_cost(s), attendee_count)

get_cost_per_player(s) ==
    CostPerPlayerIn(attendances, courts, sessions[s].birdie_cost, s)

get_dropout_count(s) ==
    BagCount(attendances,
             {a \in BagToSet(attendances) : a.session_id = s /\ a.status = "DROPOUT"})

get_fillin_count(s) ==
    BagCount(attendances,
             {a \in BagToSet(attendances) : a.session_id = s /\ a.status = "FILLIN"})

\* a suggestion whose partial refund keeps the birdie cost in
calculate_suggested_refund_with_birdie(s) == get_cost_per_player(s)

calculate_suggested_refund(s) ==
    IF get_fillin_count(s) >= get_dropout_count(s) /\ get_fillin_count(s) > 0
    THEN get_cost_per_player(s)
    ELSE LET attendee_count == get_attendee_count(s)
         IN  IF attendee_count > 0 THEN Round2(get_total_cost(s), attendee_count)
             ELSE 0

\* Session.get_total_collection on given tables
TotalCollectionIn(att, crt, birdie_cost, s) ==
    LET rows == {a \in BagToSet(att) : a.session_id = s /\ a.status = "YES"}
        charge(a) == IF a.category = "kid" THEN KID_FLAT_RATE
                     ELSE CostPerPlayerIn(att, crt, birdie_cost, s)
    IN  Round2(BagSum(att, [a \in rows |-> charge(a)]), 1)

get_total_collection_kids_pay_share(s) ==
    LET rows == {a \in BagToSet(attendances) : a.session_id = s /\ a.status = "YES"}
    IN  Round2(BagSum(attendances, [a \in rows |-> get_cost_per_player(s)]), 1)

get_total_collection(s) ==
    TotalCollectionIn(attendances, courts, sessions[s].birdie_cost, s)

\* the unrounded share that Player.get_total_charges adds for one attendance
ChargeFraction(a) ==
    IF a.category = "kid" THEN <<KID_FLAT_RATE, 1>>
    ELSE LET attendee_count == get_attendee_count(a.session_id)
         IN  IF attendee_count > 0
             THEN <<get_total_cost(a.session_id)
                       + sessions[a.session_id].birdie_cost * attendee_count,
                    attendee_count>>
             ELSE <<0, 1>>

RECURSIVE ChargeTotal(_)
ChargeTotal(rows) ==
    IF rows = {} THEN <<0, 1>>
    ELSE LET a == CHOOSE x \in rows : TRUE
             f == ChargeFraction(a)
         IN  FracAdd(<<f[1] * CopiesIn(a, attendances), f[2]>>, ChargeTotal(rows \ {a}))

get_total_charges(p) ==
    LET rows == {a \in BagToSet(attendances) : a.player_id = p /\ a.status = "YES"}
        total == ChargeTotal(rows)
    IN  Round2(total[1], total[2])

get_total_payments_positive_only(p) ==
    Round2(Sum([x \in {y \in payments : y.player_id = p /\ y.amount > 0} |-> x.amount]), 1)

get_total_payments(p) ==
    Round2(Sum([x \in {y \in payments : y.player_id = p} |-> x.amount]), 1)

get_balance(p) == Round2(get_total_charges(p) - get_total_payments(p), 1)

\* a stock that counts the purchases only
get_current_stock_purchases_only ==
    Sum([x \in {y \in birdie_bank : y.transaction_type = "purchase"} |-> x.quantity])

\* BirdieBank.get_current_stock: SUM(quantity) of the purchases minus
\* SUM(quantity) of the usages, a SUM over no rows counting as 0
get_current_stock ==
    LET purchases == Sum([x \in {y \in birdie_bank : y.transaction_type = "purchase"}
                             |-> x.quantity])
        usage == Sum([x \in {y \in birdie_bank : y.transaction_type = "usage"}
                         |-> x.quantity])
    IN  purchases - usage

\* BirdieBank.get_total_spent
get_total_spent ==
    Sum([x \in {y \in birdie_bank : y.transaction_type = "purchase"} |-> x.cost])

\* ------------------------------------------------------------------- Init

Init ==
    /\ players = InitPlayers
    /\ sessions = << >>
    /\ courts = EmptyBag
    /\ attendances = EmptyBag
    /\ payments = {}
    /\ refunds = {}
    /\ birdie_bank = {}
    /\ next_id = [session |-> 1, payment |-> 1, refund |-> 1, birdie |-> 1]
    /\ requests = [r \in 1..MaxRequests |-> [pc |-> "idle"]]
    /\ last = [op |-> "none"]

\* ------------------------------------------------------- request inputs

CourtKinds ==
    {[cost |-> 1000, court_type |-> "regular"], [cost |-> 2000, court_type |-> "adhoc"]}

\* the court rows of an add_session / edit_session form: court_count of them
CourtForms == UNION {[1..n -> CourtKinds] : n \in 0..MaxCourts}

BirdieCosts == {0, 200}

PaymentAmounts == {1500, -500}

\* ------------------------------------------------------------ the store

\* db.session.commit() of a unit of work that leaves the attendances table as att:
\* the table's constraints hold, or the transaction is rolled back
CommitOK(att) == unique_player_session(att) /\ AttendanceForeignKeys(att)

\* what .first() and Query.get() give when no row matches
NoRow == [player_id |-> None, session_id |-> None]

\* Attendance.query.filter_by(player_id=p, session_id=s).first()
FirstAttendance(att, p, s) ==
    LET found == {a \in BagToSet(att) : a.player_id = p /\ a.session_id = s}
    IN  IF found = {} THEN NoRow ELSE CHOOSE a \in found : TRUE

InsertAttendance(att, row) == att (+) SetToBag({row})

DeleteAttendance(att, row) == att (-) SetToBag({row})

ReplaceAttendance(att, old, new) == InsertAttendance(DeleteAttendance(att, old), new)

NewCourts(s, form) ==
    LET row(i) == [session_id |-> s, cost |-> form[i].cost, court_type |-> form[i].court_type]
        rows == {row(i) : i \in DOMAIN form}
    IN  [r \in rows |-> Cardinality({i \in DOMAIN form : row(i) = r})]

\* ------------------------------------------------------------- app.py: access

UserTypes == {"admin", "player_admin", "player"}

\* POST /login: the club password makes a master admin (no player), a player's
\* own password makes a player admin or a player by the is_admin flag
login(player_id) ==
    IF player_id = None THEN "admin"
    ELSE IF players[player_id].is_admin THEN "player_admin"
    ELSE "player"

\* the decorator lets the request through
admin_required(user_type) == user_type \in {"admin", "player_admin"}

\* the decorator lets the request through
master_admin_required(user_type) == user_type \in {"admin", "player_admin"}

\* POST /players/<id>/toggle-admin, behind admin_required
toggle_admin(user_type, id) ==
    /\ id \in DOMAIN players
    /\ players' = IF admin_required(user_type)
                  THEN [players EXCEPT ![id].is_admin = ~@]
                  ELSE players
    /\ UNCHANGED <<sessions, courts, attendances, payments, refunds, next_id>>

\* ------------------------------------------------------------ app.py: sessions

\* POST /sessions/add
add_session(d, birdie_cost, form) ==
    LET id == next_id.session
        rows == {[player_id |-> p, session_id |-> id, status |-> "NO",
                  category |-> players[p].category] : p \in DOMAIN players}
    IN  /\ id <= MaxSessions
        /\ sessions' = sessions @@ (id :> [date |-> d, birdie_cost |-> birdie_cost,
                                          is_archived |-> FALSE, voting_frozen |-> FALSE])
        /\ courts' = courts (+) NewCourts(id, form)
        /\ attendances' = attendances (+) SetToBag(rows)
        /\ next_id' = [next_id EXCEPT !.session = id + 1]
        /\ UNCHANGED <<players, payments, refunds>>

\* an edit that adds the form's courts to the ones the session has
edit_session_keeps_old_courts(id, d, birdie_cost, form) ==
    /\ id \in DOMAIN sessions
    /\ sessions' = [sessions EXCEPT ![id].date = d, ![id].birdie_cost = birdie_cost]
    /\ courts' = courts (+) NewCourts(id, form)
    /\ UNCHANGED <<players, attendances, payments, refunds, next_id>>

\* POST /sessions/<id>/edit
edit_session(id, d, birdie_cost, form) ==
    /\ id \in DOMAIN sessions
    /\ sessions' = [sessions EXCEPT ![id].date = d, ![id].birdie_cost = birdie_cost]
    /\ courts' = [c \in BagToSet(courts) \ CourtsOf(id) |-> courts[c]] (+) NewCourts(id, form)
    /\ UNCHANGED <<players, attendances, payments, refunds, next_id>>

\* a delete that leaves the session's courts and attendances behind
delete_session_keeps_rows(id) ==
    /\ id \in DOMAIN sessions
    /\ sessions' = [s \in DOMAIN sessions \ {id} |-> sessions[s]]
    /\ UNCHANGED <<players, courts, attendances, payments, refunds, next_id>>

\* POST /sessions/<id>/delete: courts and attendances go with the session; a
\* refund of the session would be left with a NULL session_id, which the column
\* forbids, so the commit fails and nothing is deleted
delete_session(id) ==
    /\ id \in DOMAIN sessions
    /\ IF \E r \in refunds : r.session_id = id
       THEN UNCHANGED <<sessions, courts, attendances>>
       ELSE /\ sessions' = [s \in DOMAIN sessions \ {id} |-> sessions[s]]
            /\ courts' = [c \in BagToSet(courts) \ CourtsOf(id) |-> courts[c]]
            /\ attendances' = [a \in {x \in BagToSet(attendances) : x.session_id # id}
                                  |-> attendances[a]]
    /\ UNCHANGED <<players, payments, refunds, next_id>>

\* POST /players/<id>/delete: attendances and payments go with the player, the
\* players it manages lose their manager; a refund of the player would be left
\* with a NULL player_id, so the commit fails and nothing is deleted
delete_player(id) ==
    /\ id \in DOMAIN players
    /\ IF \E r \in refunds : r.player_id = id
       THEN UNCHANGED <<players, attendances, payments>>
       ELSE /\ players' = [p \in DOMAIN players \ {id} |->
                              IF players[p].managed_by = id
                              THEN [players[p] EXCEPT !.managed_by = None]
                              ELSE players[p]]
            /\ attendances' = [a \in {x \in BagToSet(attendances) : x.player_id # id}
                                  |-> attendances[a]]
            /\ payments' = {x \in payments : x.player_id # id}
    /\ UNCHANGED <<sessions, courts, refunds, next_id>>

\* ------------------------------------------------------- app.py: attendance

\* an upsert that adds a row without looking for one
update_attendance_rows_always_insert(player_id, session_id, status) ==
    InsertAttendance(attendances,
        [player_id |-> player_id, session_id |-> session_id, status |-> status,
         category |-> IF player_id \in DOMAIN players THEN players[player_id].category
                      ELSE "regular"])

\* the attendances table after POST /api/attendance, before the commit
update_attendance_rows(player_id, session_id, status) ==
    LET attendance == FirstAttendance(attendances, player_id, session_id)
        category == IF player_id \in DOMAIN players THEN players[player_id].category ELSE "regular"
    IN  IF attendance # NoRow
        THEN ReplaceAttendance(attendances, attendance, [attendance EXCEPT !.status = status])
        ELSE InsertAttendance(attendances,
                 [player_id |-> player_id, session_id |-> session_id,
                  status |-> status, category |-> category])

\* the response of POST /api/attendance
update_attendance_response(player_id, session_id, status) ==
    LET request == [op |-> "update_attendance", player_id |-> player_id,
                    session_id |-> session_id, status |-> status]
    IN  IF status \notin AdminStatuses
        THEN request @@ [code |-> 400, attendee_count |-> None, cost_per_player |-> None]
        ELSE IF ~CommitOK(update_attendance_rows(player_id, session_id, status))
        THEN request @@ [code |-> 500, attendee_count |-> None, cost_per_player |-> None]
        ELSE request @@ [code |-> 200,
                         attendee_count |-> get_attendee_count(session_id)',
                         cost_per_player |-> get_cost_per_player(session_id)']

\* POST /api/attendance
update_attendance(player_id, session_id, status) ==
    LET rows == update_attendance_rows(player_id, session_id, status)
    IN  /\ attendances' = IF status \in AdminStatuses /\ CommitOK(rows)
                          THEN rows ELSE attendances
        /\ UNCHANGED <<players, sessions, courts, payments, refunds, next_id>>

\* a category override that also rewrites the player's base category
update_attendance_category_sets_player(player_id, session_id, category) ==
    LET attendance == FirstAttendance(attendances, player_id, session_id)
    IN  /\ category \in Categories
        /\ attendance # NoRow
        /\ attendances' = ReplaceAttendance(attendances, attendance,
                                            [attendance EXCEPT !.category = category])
        /\ players' = [players EXCEPT ![player_id].category = category]
        /\ UNCHANGED <<sessions, courts, payments, refunds, next_id>>

\* POST /api/attendance/category
update_attendance_category(player_id, session_id, category) ==
    LET attendance == FirstAttendance(attendances, player_id, session_id)
        rows == IF attendance # NoRow
                THEN ReplaceAttendance(attendances, attendance,
                                       [attendance EXCEPT !.category = category])
                ELSE InsertAttendance(attendances,
                         [player_id |-> player_id, session_id |-> session_id,
                          status |-> "NO", category |-> category])
    IN  /\ attendances' = IF category \in Categories /\ CommitOK(rows)
                          THEN rows ELSE attendances
        /\ UNCHANGED <<players, sessions, courts, payments, refunds, next_id>>

\* the status code of the response of POST /api/attendance/category
update_attendance_category_code(player_id, session_id, category) ==
    LET attendance == FirstAttendance(attendances, player_id, session_id)
        rows == IF attendance # NoRow THEN attendances
                ELSE InsertAttendance(attendances,
                         [player_id |-> player_id, session_id |-> session_id,
                          status |-> "NO", category |-> category])
    IN  IF category \notin Categories THEN 400
        ELSE IF ~CommitOK(rows) THEN 500
        ELSE 200

\* Column(default='regular'): the category of a row created without one
DefaultCategory == "regular"

\* a club in which everybody manages everybody
managed_players_everyone(p) == Players

\* player.managed_players
managed_players(p) == {q \in DOMAIN players : players[q].managed_by = p}

RECURSIVE EnsureRows(_, _, _)
\* add a NO row of the given category for every (player, session) pair of
\* want that has no row yet
EnsureRows(att, want, category) ==
    IF want = {} THEN att
    ELSE LET w == CHOOSE x \in want : TRUE
             row == [player_id |-> w[1], session_id |-> w[2], status |-> "NO",
                     category |-> category[w[1]]]
         IN  EnsureRows(IF FirstAttendance(att, w[1], w[2]) = NoRow
                        THEN InsertAttendance(att, row) ELSE att,
                        want \ {w}, category)

\* GET /sessions/<id>
session_detail(id) ==
    LET rows == EnsureRows(attendances, (DOMAIN players) \X {id},
                           [p \in DOMAIN players |-> players[p].category])
    IN  /\ id \in DOMAIN sessions
        /\ attendances' = IF CommitOK(rows) THEN rows ELSE attendances
        /\ UNCHANGED <<players, sessions, courts, payments, refunds, next_id>>

\* GET /player/sessions, as the logged-in player player_id
player_sessions(player_id) ==
    LET players_to_track == {player_id} \cup managed_players(player_id)
        upcoming_sessions == {s \in DOMAIN sessions : ~sessions[s].is_archived}
        rows == EnsureRows(attendances, players_to_track \X upcoming_sessions,
                           [p \in DOMAIN players |-> DefaultCategory])
    IN  /\ player_id \in DOMAIN players
        /\ attendances' = IF CommitOK(rows) THEN rows ELSE attendances
        /\ UNCHANGED <<players, sessions, courts, payments, refunds, next_id>>

\* a self-service check that lets the admin-only statuses through
update_player_attendance_check_admin_statuses(current_player_id, target_player_id, session_id, status) ==
    IF session_id \in DOMAIN sessions /\ sessions[session_id].voting_frozen THEN 403
    ELSE IF status \notin AdminStatuses THEN 400
    ELSE IF target_player_id # current_player_id
            /\ target_player_id \notin managed_players(current_player_id) THEN 403
    ELSE 0

\* a check that does not look at the freeze
update_player_attendance_check_ignores_freeze(current_player_id, target_player_id, session_id, status) ==
    IF status \notin PlayerStatuses THEN 400
    ELSE IF target_player_id # current_player_id
            /\ target_player_id \notin managed_players(current_player_id) THEN 403
    ELSE 0

\* the outcome of POST /api/player/attendance before it touches the table:
\* 403 frozen, 400 status, 403 not self nor managed, else 0
update_player_attendance_check(current_player_id, target_player_id, session_id, status) ==
    IF session_id \in DOMAIN sessions /\ sessions[session_id].voting_frozen THEN 403
    ELSE IF status \notin PlayerStatuses THEN 400
    ELSE IF target_player_id # current_player_id
            /\ target_player_id \notin managed_players(current_player_id) THEN 403
    ELSE 0

update_player_attendance_rows(target_player_id, session_id, status) ==
    LET attendance == FirstAttendance(attendances, target_player_id, session_id)
    IN  IF attendance # NoRow
        THEN ReplaceAttendance(attendances, attendance, [attendance EXCEPT !.status = status])
        ELSE InsertAttendance(attendances,
                 [player_id |-> target_player_id, session_id |-> session_id,
                  status |-> status, category |-> DefaultCategory])

\* POST /api/player/attendance
update_player_attendance(current_player_id, target_player_id, session_id, status) ==
    LET rows == update_player_attendance_rows(target_player_id, session_id, status)
        ok == update_player_attendance_check(current_player_id, target_player_id,
                                             session_id, status) = 0
    IN  /\ current_player_id \in DOMAIN players
        /\ attendances' = IF ok /\ CommitOK(rows) THEN rows ELSE attendances
        /\ UNCHANGED <<players, sessions, courts, payments, refunds, next_id>>

\* the response of POST /api/player/attendance
update_player_attendance_response(current_player_id, target_player_id, session_id, status) ==
    LET request == [op |-> "update_player_attendance",
                    current_player_id |-> current_player_id,
                    player_id |-> target_player_id,
                    session_id |-> session_id, status |-> status]
        code == update_player_attendance_check(current_player_id, target_player_id,
                                               session_id, status)
    IN  IF code # 0
        THEN request @@ [code |-> code, attendee_count |-> None, cost_per_player |-> None]
        ELSE IF ~CommitOK(update_player_attendance_rows(target_player_id, session_id, status))
        THEN request @@ [code |-> 500, attendee_count |-> None, cost_per_player |-> None]
        ELSE request @@ [code |-> 200,
                         attendee_count |-> get_attendee_count(session_id)',
                         cost_per_player |-> get_cost_per_player(session_id)']

\* POST /sessions/<id>/toggle-voting-freeze
toggle_voting_freeze(id) ==
    /\ id \in DOMAIN sessions
    /\ sessions' = [sessions EXCEPT ![id].voting_frozen = ~@]
    /\ UNCHANGED <<players, courts, attendances, payments, refunds, next_id>>

\* the body of the bulk loops for one (session, player): clear, update or create
BulkOne(att, session_id, player_id, status) ==
    LET attendance == FirstAttendance(att, player_id, session_id)
    IN  IF status = "CLEAR"
        THEN IF attendance # NoRow THEN DeleteAttendance(att, attendance) ELSE att
        ELSE IF attendance # NoRow
        THEN ReplaceAttendance(att, attendance,
                 [attendance EXCEPT !.status = status,
                                    !.category = players[player_id].category])
        ELSE InsertAttendance(att,
                 [player_id |-> player_id, session_id |-> session_id,
                  status |-> status, category |-> players[player_id].category])

RECURSIVE BulkPlayers(_, _, _, _)
BulkPlayers(att, session_id, todo, status) ==
    IF todo = {} THEN att
    ELSE LET p == CHOOSE x \in todo : TRUE
         IN  BulkPlayers(BulkOne(att, session_id, p, status), session_id, todo \ {p}, status)

RECURSIVE BulkSessions(_, _, _, _)
\* for session_id in session_ids: skip a missing session, else every player
BulkSessions(att, session_ids, who, status) ==
    IF session_ids = << >> THEN att
    ELSE LET session_id == Head(session_ids)
             done == IF session_id \in DOMAIN sessions
                     THEN BulkPlayers(att, session_id, who, status) ELSE att
         IN  BulkSessions(done, Tail(session_ids), who, status)

\* POST /api/bulk-attendance
bulk_attendance(session_ids, category, status) ==
    LET who == IF category \in {"regular", "adhoc", "kid"}
               THEN {p \in DOMAIN players : players[p].is_active /\ players[p].category = category}
               ELSE {p \in DOMAIN players : players[p].is_active}
        rows == BulkSessions(attendances, session_ids, who, status)
    IN  /\ attendances' = IF session_ids # << >> /\ CommitOK(rows) THEN rows ELSE attendances
        /\ UNCHANGED <<players, sessions, courts, payments, refunds, next_id>>

\* POST /api/bulk-player-attendance
bulk_player_attendance(player_id, session_ids, status) ==
    LET rows == BulkSessions(attendances, session_ids, {player_id}, status)
    IN  /\ attendances' = IF player_id \in DOMAIN players /\ session_ids # << >> /\ CommitOK(rows)
                          THEN rows ELSE attendances
        /\ UNCHANGED <<players, sessions, courts, payments, refunds, next_id>>

\* ------------------------------------ attendance upserts that run concurrently
\* A request looks its row up, and commits later; another request may do
\* either in between.  requests[r] holds what request r found.

Idle == [pc |-> "idle"]

Answered(player_id, session_id, code) ==
    [pc |-> "done", player_id |-> player_id, session_id |-> session_id, code |-> code]

NoneInFlight == \A r \in DOMAIN requests : requests[r].pc # "looked_up"

\* update_attendance up to its lookup
BeginUpdateAttendance(r, player_id, session_id, status) ==
    /\ requests[r].pc # "looked_up"
    /\ requests' = [requests EXCEPT ![r] =
           IF status \notin AdminStatuses THEN Answered(player_id, session_id, 400)
           ELSE [pc |-> "looked_up", player_id |-> player_id, session_id |-> session_id,
                 status |-> status,
                 category |-> IF player_id \in DOMAIN players THEN players[player_id].category
                              ELSE "regular",
                 found |-> FirstAttendance(attendances, player_id, session_id) # NoRow]]
    /\ UNCHANGED <<store, last>>

\* update_player_attendance up to its lookup
BeginUpdatePlayerAttendance(r, current_player_id, target_player_id, session_id, status) ==
    LET code == update_player_attendance_check(current_player_id, target_player_id,
                                               session_id, status)
    IN  /\ requests[r].pc # "looked_up"
        /\ requests' = [requests EXCEPT ![r] =
               IF code # 0 THEN Answered(target_player_id, session_id, code)
               ELSE [pc |-> "looked_up", player_id |-> target_player_id,
                     session_id |-> session_id, status |-> status,
                     category |-> DefaultCategory,
                     found |-> FirstAttendance(attendances, target_player_id, session_id)
                                   # NoRow]]
        /\ UNCHANGED <<store, last>>

\* the attendances table that request q's commit asks for: an UPDATE of the row
\* it found, or an INSERT of the row it built
CommitRows(q) ==
    LET attendance == FirstAttendance(attendances, q.player_id, q.session_id)
    IN  IF q.found
        THEN ReplaceAttendance(attendances, attendance, [attendance EXCEPT !.status = q.status])
        ELSE InsertAttendance(attendances,
                 [player_id |-> q.player_id, session_id |-> q.session_id,
                  status |-> q.status, category |-> q.category])

\* db.session.commit() of an upsert: an IntegrityError is not caught, the
\* transaction is rolled back and the caller gets a 500
CommitUpsert(r) ==
    LET q == requests[r]
        rows == CommitRows(q)
    IN  /\ q.pc = "looked_up"
        /\ attendances' = IF CommitOK(rows) THEN rows ELSE attendances
        /\ requests' = [requests EXCEPT ![r] =
               Answered(q.player_id, q.session_id, IF CommitOK(rows) THEN 200 ELSE 500)]
        /\ UNCHANGED <<players, sessions, courts, payments, refunds, next_id, last>>

\* -------------------------------------------------------- app.py: payments

\* credit_of is not a column: it records, for the properties, the refund whose
\* processing added the row
NewPayment(player_id, amount, method, notes) ==
    [id |-> next_id.payment, player_id |-> player_id, amount |-> amount,
     method |-> method, notes |-> notes, credit_of |-> None]

\* POST /payments/add
add_payment(player_id, amount, method) ==
    /\ next_id.payment <= MaxPayments
    /\ player_id \in DOMAIN players
    /\ payments' = payments \cup {NewPayment(player_id, amount, method, None)}
    /\ next_id' = [next_id EXCEPT !.payment = @ + 1]
    /\ UNCHANGED <<players, sessions, courts, attendances, refunds>>

\* POST /player/payments: is the target the caller or one of the caller's
\* managed players
player_payments_allowed(player_id, target_player_id) ==
    target_player_id = player_id \/ target_player_id \in managed_players(player_id)

\* POST /player/payments, as the logged-in player player_id
player_payments(player_id, target_player_id, amount, method) ==
    /\ next_id.payment <= MaxPayments
    /\ player_id \in DOMAIN players
    /\ IF player_payments_allowed(player_id, target_player_id)
       THEN /\ payments' = payments \cup {NewPayment(target_player_id, amount, method, None)}
            /\ next_id' = [next_id EXCEPT !.payment = @ + 1]
       ELSE UNCHANGED <<payments, next_id>>
    /\ UNCHANGED <<players, sessions, courts, attendances, refunds>>

\* the redirect that answers POST /player/payments, with its flashed message
player_payments_response(player_id, target_player_id) ==
    [op |-> "player_payments", current_player_id |-> player_id,
     player_id |-> target_player_id, code |-> 302,
     category |-> IF player_payments_allowed(player_id, target_player_id)
                  THEN "success" ELSE "error"]

\* POST /payments/<id>/delete
delete_payment(id) ==
    /\ \E x \in payments : x.id = id
    /\ payments' = {x \in payments : x.id # id}
    /\ UNCHANGED <<players, sessions, courts, attendances, refunds, next_id>>

\* ---------------------------------------------------- app.py: birdie bank

BirdieTypes == {"purchase", "usage"}

BirdieQuantities == {20, 30, 50}

\* POST /birdie-bank/add: the cost is kept for a purchase only
add_birdie_transaction(transaction_type, quantity, cost) ==
    /\ next_id.birdie <= MaxBirdies
    /\ birdie_bank' = birdie_bank \cup
           {[id |-> next_id.birdie, transaction_type |-> transaction_type,
             quantity |-> quantity,
             cost |-> IF transaction_type = "purchase" THEN cost ELSE 0]}
    /\ next_id' = [next_id EXCEPT !.birdie = @ + 1]
    /\ UNCHANGED <<players, sessions, courts, attendances, payments, refunds>>

\* POST /birdie-bank/<id>/delete
delete_birdie_transaction(id) ==
    /\ \E x \in birdie_bank : x.id = id
    /\ birdie_bank' = {x \in birdie_bank : x.id # id}
    /\ UNCHANGED <<players, sessions, courts, attendances, payments, refunds, next_id>>

\* ------------------------------------------------- app.py: dropout refunds

\* datetime.utcnow(), as opposed to no date
utcnow == 1

\* f'Dropout refund for session {refund.session.date...}': payment notes carry
\* the date of the refund's session
RefundNotes(refund) == sessions[refund.session_id].date

\* Payment.query.filter_by(player_id, method='Refund').filter(notes LIKE ...)
RefundPayments(refund) ==
    {x \in payments : /\ x.player_id = refund.player_id
                      /\ x.method = "Refund"
                      /\ x.notes = RefundNotes(refund)}

\* an add that credits the player at once
add_dropout_refund_deducts(id, player_id, refund_amount) ==
    /\ next_id.refund <= MaxRefunds
    /\ next_id.payment <= MaxPayments
    /\ id \in DOMAIN sessions
    /\ player_id \in DOMAIN players
    /\ {x \in refunds : x.session_id = id /\ x.player_id = player_id} = {}
    /\ refunds' = refunds \cup
           {[id |-> next_id.refund, player_id |-> player_id, session_id |-> id,
             refund_amount |-> refund_amount,
             suggested_amount |-> calculate_suggested_refund(id),
             status |-> "pending", processed_date |-> None]}
    /\ payments' = payments \cup
           {NewPayment(player_id, 0 - refund_amount, "Refund", sessions[id].date)}
    /\ next_id' = [next_id EXCEPT !.refund = @ + 1, !.payment = @ + 1]
    /\ UNCHANGED <<players, sessions, courts, attendances>>

\* POST /sessions/<id>/refunds/add
add_dropout_refund(id, player_id, refund_amount) ==
    LET existing == {x \in refunds : x.session_id = id /\ x.player_id = player_id}
        refund == [id |-> next_id.refund, player_id |-> player_id, session_id |-> id,
                   refund_amount |-> refund_amount,
                   suggested_amount |-> calculate_suggested_refund(id),
                   status |-> "pending", processed_date |-> None]
    IN  /\ next_id.refund <= MaxRefunds
        /\ id \in DOMAIN sessions
        /\ IF existing = {} /\ player_id \in DOMAIN players
           THEN /\ refunds' = refunds \cup {refund}
                /\ next_id' = [next_id EXCEPT !.refund = @ + 1]
           ELSE UNCHANGED <<refunds, next_id>>
        /\ UNCHANGED <<players, sessions, courts, attendances, payments>>

\* add_dropout_refund up to its check for an existing refund
BeginAddDropoutRefund(r, id, player_id, refund_amount) ==
    LET existing == {x \in refunds : x.session_id = id /\ x.player_id = player_id}
    IN  /\ requests[r].pc \notin {"looked_up", "checked"}
        /\ id \in DOMAIN sessions
        /\ requests' = [requests EXCEPT ![r] =
               IF existing # {} THEN Answered(player_id, id, 302)
               ELSE [pc |-> "checked", player_id |-> player_id, session_id |-> id,
                     refund_amount |-> refund_amount,
                     suggested_amount |-> calculate_suggested_refund(id)]]
        /\ UNCHANGED <<store, last>>

\* db.session.add(refund); db.session.commit(): the table has no unique
\* constraint, only the foreign keys can refuse the row
CommitAddDropoutRefund(r) ==
    LET q == requests[r]
    IN  /\ q.pc = "checked"
        /\ next_id.refund <= MaxRefunds
        /\ IF q.session_id \in DOMAIN sessions /\ q.player_id \in DOMAIN players
           THEN /\ refunds' = refunds \cup
                       {[id |-> next_id.refund, player_id |-> q.player_id,
                         session_id |-> q.session_id,
                         refund_amount |-> q.refund_amount,
                         suggested_amount |-> q.suggested_amount,
                         status |-> "pending", processed_date |-> None]}
                /\ next_id' = [next_id EXCEPT !.refund = @ + 1]
                /\ requests' = [requests EXCEPT ![r] = Answered(q.player_id, q.session_id, 302)]
           ELSE /\ UNCHANGED <<refunds, next_id>>
                /\ requests' = [requests EXCEPT ![r] = Answered(q.player_id, q.session_id, 500)]
        /\ UNCHANGED <<players, sessions, courts, attendances, payments, last>>

\* the payment that action 'process' adds, crediting suggested_amount
ProcessPaymentSuggested(refund) ==
    [NewPayment(refund.player_id, 0 - refund.suggested_amount, "Refund", RefundNotes(refund))
        EXCEPT !.credit_of = refund.id]

\* the payment that action 'process' adds
ProcessPayment(refund) ==
    [NewPayment(refund.player_id, 0 - refund.refund_amount, "Refund", RefundNotes(refund))
        EXCEPT !.credit_of = refund.id]

\* action == 'process'
Process(refund) ==
    /\ next_id.payment <= MaxPayments
    /\ refunds' = (refunds \ {refund}) \cup
           {[refund EXCEPT !.status = "processed", !.processed_date = utcnow]}
    /\ payments' = payments \cup {ProcessPayment(refund)}
    /\ next_id' = [next_id EXCEPT !.payment = @ + 1]

\* action == 'update'
Update(refund, new_amount) ==
    /\ refunds' = (refunds \ {refund}) \cup {[refund EXCEPT !.refund_amount = new_amount]}
    /\ IF refund.status = "processed" /\ RefundPayments(refund) # {}
       THEN \E payment \in RefundPayments(refund) :
                payments' = (payments \ {payment}) \cup
                    {[payment EXCEPT !.amount = 0 - new_amount,
                                     !.notes = RefundNotes(refund)]}
       ELSE UNCHANGED payments
    /\ UNCHANGED next_id

\* a cancel that gives up when it finds no payment to remove
CancelNeedsPayment(refund) ==
    /\ IF refund.status = "processed" /\ RefundPayments(refund) = {}
       THEN UNCHANGED <<refunds, payments>>
       ELSE /\ refunds' = (refunds \ {refund}) \cup {[refund EXCEPT !.status = "cancelled"]}
            /\ IF refund.status = "processed"
               THEN \E payment \in RefundPayments(refund) : payments' = payments \ {payment}
               ELSE UNCHANGED payments
    /\ UNCHANGED next_id

\* action == 'cancel'
Cancel(refund) ==
    /\ refunds' = (refunds \ {refund}) \cup {[refund EXCEPT !.status = "cancelled"]}
    /\ IF refund.status = "processed" /\ RefundPayments(refund) # {}
       THEN \E payment \in RefundPayments(refund) : payments' = payments \ {payment}
       ELSE UNCHANGED payments
    /\ UNCHANGED next_id

\* POST /refunds/<id>/update
update_dropout_refund(id, action, new_amount) ==
    /\ \E refund \in refunds :
           /\ refund.id = id
           /\ CASE action = "update" -> Update(refund, new_amount)
                [] action = "process" -> Process(refund)
                [] action = "cancel" -> Cancel(refund)
                [] OTHER -> UNCHANGED <<refunds, payments, next_id>>
    /\ UNCHANGED <<players, sessions, courts, attendances>>

\* what POST /refunds/<id>/update answers: 404, or a redirect with the flashed
\* message and its category
update_dropout_refund_response(id, action) ==
    LET request == [op |-> "update_dropout_refund", id |-> id, action |-> action]
        found == {x \in refunds : x.id = id}
        refund == CHOOSE x \in found : TRUE
        linked == refund.status = "processed"
        missing == RefundPayments(refund) = {}
    IN  IF found = {} THEN request @@ [code |-> 404, category |-> "none", flash |-> "none"]
        ELSE request @@ [code |-> 302] @@
             CASE action = "update" /\ linked /\ ~missing ->
                      [category |-> "success", flash |-> "payment record adjusted"]
               [] action = "update" /\ linked /\ missing ->
                      [category |-> "error", flash |-> "could not find payment record"]
               [] action = "update" /\ ~linked ->
                      [category |-> "success", flash |-> "Refund updated successfully!"]
               [] action = "process" ->
                      [category |-> "success", flash |-> "processed and credited"]
               [] action = "cancel" /\ linked /\ ~missing ->
                      [category |-> "success", flash |-> "payment record removed"]
               [] action = "cancel" /\ linked /\ missing ->
                      [category |-> "error", flash |-> "could not find payment record"]
               [] action = "cancel" /\ ~linked ->
                      [category |-> "success", flash |-> "Refund cancelled"]
               [] OTHER -> [category |-> "none", flash |-> "none"]

\* POST /refunds/<id>/delete
delete_dropout_refund(id) ==
    /\ \E refund \in refunds : refund.id = id
    /\ refunds' = {x \in refunds : x.id # id}
    /\ UNCHANGED <<players, sessions, courts, attendances, payments, next_id>>

\* ---------------------------------------------------------- the cost slice
\* One session; every status and every per-session category, valid or not.

CostSessions == 1

NextCost ==
    /\ UNCHANGED <<birdie_bank, requests, last>>
    /\ \/ \E b \in BirdieCosts, f \in CourtForms :
              next_id.session <= CostSessions /\ add_session(1, b, f)
       \/ \E s \in SessionIds, b \in BirdieCosts, f \in CourtForms : edit_session(s, 1, b, f)
       \/ \E p \in Players, s \in SessionIds, st \in AdminStatuses \cup {"MAYBE"} :
              update_attendance(p, s, st)
       \/ \E p \in Players, s \in SessionIds, c \in Categories \cup {"child"} :
              update_attendance_category(p, s, c)

SpecCost == Init /\ [][NextCost]_vars

\* ------------------------------------------------------- the balance slice
\* Two sessions, votes YES and NO, and payments entered and deleted.

NextBalance ==
    /\ UNCHANGED <<birdie_bank, requests, last>>
    /\ \/ \E f \in CourtForms : add_session(1, 200, f)
       \/ \E s \in SessionIds, f \in CourtForms : edit_session(s, 1, 200, f)
       \/ \E p \in Players, s \in SessionIds, st \in {"YES", "NO"} :
              update_attendance(p, s, st)
       \/ \E p \in Players, a \in PaymentAmounts : add_payment(p, a, "Zelle")
       \/ \E id \in 1..MaxPayments : delete_payment(id)

SpecBalance == Init /\ [][NextBalance]_vars

\* ---------------------------------------------------------- the race slice
\* Every handler that creates attendance rows, on one session; the two upsert
\* handlers also as requests whose lookups and commits interleave.  The other
\* handlers run while no upsert is between its lookup and its commit.

RaceSessions == 1

BulkSessionLists == UNION {[1..n -> SessionIds] : n \in 0..2}

NextRace ==
    /\ UNCHANGED birdie_bank
    /\ \/ /\ NoneInFlight
          /\ UNCHANGED <<requests, last>>
          /\ \/ next_id.session <= RaceSessions /\ add_session(1, 200, << >>)
             \/ \E s \in SessionIds : session_detail(s)
             \/ \E p \in Players : player_sessions(p)
             \/ \E p \in Players, s \in SessionIds : update_attendance_category(p, s, "adhoc")
             \/ \E ids \in BulkSessionLists, c \in {"all", "kid"}, st \in {"YES", "CLEAR"} :
                    bulk_attendance(ids, c, st)
             \/ \E p \in Players, ids \in BulkSessionLists, st \in {"YES", "CLEAR"} :
                    bulk_player_attendance(p, ids, st)
       \/ \E r \in DOMAIN requests, p \in Players, s \in DOMAIN sessions,
             st \in {"YES", "NO", "MAYBE"} :
              BeginUpdateAttendance(r, p, s, st)
       \/ \E r \in DOMAIN requests, cur \in Players, p \in Players, s \in DOMAIN sessions,
             st \in {"YES", "NO", "DROPOUT"} :
              BeginUpdatePlayerAttendance(r, cur, p, s, st)
       \/ \E r \in DOMAIN requests : CommitUpsert(r)

SpecRace == Init /\ [][NextRace]_vars

\* --------------------------------------------------------- the upsert slice
\* update_attendance as a caller sees it: last is the response to the most
\* recent request when that request was an update_attendance, with repeat set
\* when the request before it was the same call.

NoResponse == [op |-> "none"]

SameCall(player_id, session_id, status) ==
    /\ last.op = "update_attendance"
    /\ last.player_id = player_id
    /\ last.session_id = session_id
    /\ last.status = status

CallUpdateAttendance(player_id, session_id, status) ==
    /\ update_attendance(player_id, session_id, status)
    /\ last' = update_attendance_response(player_id, session_id, status)
                   @@ [repeat |-> SameCall(player_id, session_id, status)]
    /\ UNCHANGED requests

NextUpsert ==
    /\ UNCHANGED birdie_bank
    /\ \/ \E p \in Players, s \in SessionIds, st \in {"YES", "NO", "DROPOUT", "MAYBE"} :
              CallUpdateAttendance(p, s, st)
       \/ /\ last' = NoResponse
          /\ UNCHANGED requests
          /\ \/ \E b \in BirdieCosts, f \in CourtForms :
                    next_id.session <= CostSessions /\ add_session(1, b, f)
             \/ \E s \in SessionIds, b \in BirdieCosts, f \in CourtForms : edit_session(s, 1, b, f)
             \/ \E p \in Players, ids \in BulkSessionLists : bulk_player_attendance(p, ids, "CLEAR")

SpecUpsert == Init /\ [][NextUpsert]_vars

\* -------------------------------------------------------- the refund slice
\* The refund handlers on one session whose players are all out or all in,
\* next to an ordinary payment.

RefundSessions == 1

RefundAmounts == {500, 700}

RefundActions == {"update", "process", "cancel", "approve"}

NextRefund ==
    /\ UNCHANGED <<birdie_bank, requests, last>>
    /\ \/ next_id.session <= RefundSessions /\ add_session(1, 200, <<[cost |-> 1000, court_type |-> "regular"]>>)
       \/ \E s \in SessionIds, st \in {"YES", "NO"} : bulk_attendance(<<s>>, "all", st)
       \/ \E s \in SessionIds, p \in Players : add_dropout_refund(s, p, 500)
       \/ \E id \in 1..MaxRefunds, action \in RefundActions, amount \in RefundAmounts :
              update_dropout_refund(id, action, amount)
       \/ \E id \in 1..MaxRefunds : delete_dropout_refund(id)
       \/ add_payment(1, 1500, "Zelle")

SpecRefund == Init /\ [][NextRefund]_vars

\* ------------------------------------------------------- the linkage slice
\* Refunds of one player over two sessions whose dates are set and edited, and
\* what the operator is told: last is the response to the most recent request
\* when that request was an update_dropout_refund.

OneCourt == <<[cost |-> 1000, court_type |-> "regular"]>>

CallUpdateDropoutRefund(id, action, new_amount) ==
    /\ update_dropout_refund(id, action, new_amount)
    /\ last' = update_dropout_refund_response(id, action)
    /\ UNCHANGED requests

NextLinkage ==
    /\ UNCHANGED birdie_bank
    /\ \/ \E id \in 1..MaxRefunds, action \in RefundActions, amount \in RefundAmounts :
              CallUpdateDropoutRefund(id, action, amount)
       \/ /\ last' = NoResponse
          /\ UNCHANGED requests
          /\ \/ \E d \in Dates : add_session(d, 200, OneCourt)
             \/ \E s \in SessionIds, d \in Dates : edit_session(s, d, 200, OneCourt)
             \/ \E s \in SessionIds, amount \in RefundAmounts : add_dropout_refund(s, 1, amount)
             \/ \E id \in 1..MaxPayments : delete_payment(id)

SpecLinkage == Init /\ [][NextLinkage]_vars

\* ------------------------------------------------------ the category slice
\* The per-session category override on one session, over rows that exist, with
\* either vote, and rows that were cleared.

NextCategory ==
    /\ UNCHANGED <<birdie_bank, requests, last>>
    /\ \/ next_id.session <= CostSessions /\ add_session(1, 200, OneCourt)
       \/ \E p \in Players, s \in SessionIds, c \in Categories \cup {"child"} :
              update_attendance_category(p, s, c)
       \/ \E p \in Players, s \in SessionIds, st \in {"YES", "NO"} : update_attendance(p, s, st)
       \/ \E p \in Players, s \in SessionIds : bulk_player_attendance(p, <<s>>, "CLEAR")

SpecCategory == Init /\ [][NextCategory]_vars

\* ---------------------------------------------------------- the bulk slice
\* The two bulk handlers on one session, with a status the single-row
\* handlers know, one they do not, and CLEAR.

BulkStatuses == {"YES", "MAYBE", "CLEAR"}

NextBulk ==
    /\ UNCHANGED <<birdie_bank, requests, last>>
    /\ \/ next_id.session <= CostSessions /\ add_session(1, 200, OneCourt)
       \/ \E ids \in BulkSessionLists, c \in {"all", "kid"}, st \in BulkStatuses :
              bulk_attendance(ids, c, st)
       \/ \E p \in Players, ids \in BulkSessionLists, st \in BulkStatuses :
              bulk_player_attendance(p, ids, st)
       \/ \E p \in Players, s \in SessionIds, st \in {"DROPOUT", "MAYBE"} :
              update_attendance(p, s, st)

SpecBulk == Init /\ [][NextBulk]_vars

\* ------------------------------------------------------ the requests slice
\* What callers of the two upserts are answered: the admin upsert, also for a
\* player that does not exist, and the self-service upsert of every player for
\* every player, on one session (the other session id names none) whose voting
\* is frozen and unfrozen.  last is the response to the most recent of these
\* requests.

MissingPlayer == NumPlayers + 1

CallUpdatePlayerAttendance(current_player_id, target_player_id, session_id, status) ==
    /\ update_player_attendance(current_player_id, target_player_id, session_id, status)
    /\ last' = update_player_attendance_response(current_player_id, target_player_id,
                                                 session_id, status)
    /\ UNCHANGED requests

CallPlayerPayments(player_id, target_player_id, amount, method) ==
    /\ player_payments(player_id, target_player_id, amount, method)
    /\ last' = player_payments_response(player_id, target_player_id)
    /\ UNCHANGED requests

NextRequests ==
    /\ UNCHANGED birdie_bank
    /\ \/ \E p \in Players \cup {MissingPlayer}, s \in SessionIds, st \in {"YES", "FILLIN", "MAYBE"} :
              CallUpdateAttendance(p, s, st)
       \/ \E cur \in Players, p \in Players, s \in SessionIds, st \in {"YES", "NO", "DROPOUT", "MAYBE"} :
              CallUpdatePlayerAttendance(cur, p, s, st)
       \/ /\ last' = NoResponse
          /\ UNCHANGED requests
          /\ \/ next_id.session <= CostSessions /\ add_session(1, 200, OneCourt)
             \/ \E s \in SessionIds : toggle_voting_freeze(s)

SpecRequests == Init /\ [][NextRequests]_vars

\* -------------------------------------------------- the self-service slice
\* What a logged-in player can do for every player: vote and record a payment.

NextSelfService ==
    /\ UNCHANGED birdie_bank
    /\ \/ \E cur \in Players, p \in Players, s \in SessionIds, st \in {"YES", "NO"} :
              CallUpdatePlayerAttendance(cur, p, s, st)
       \/ \E cur \in Players, p \in Players : CallPlayerPayments(cur, p, 1500, "Zelle")
       \/ /\ last' = NoResponse
          /\ UNCHANGED requests
          /\ next_id.session <= CostSessions
          /\ add_session(1, 200, OneCourt)

SpecSelfService == Init /\ [][NextSelfService]_vars

\* ------------------------------------------------------------ the read slice
\* Player.to_dict() next to the handlers that change what it reads; last is the
\* dictionary it returned when it was the most recent request.

\* a read that clears the player's payments while it computes
get_balance_rows_settled(player_id) ==
    /\ player_id \in DOMAIN players
    /\ payments' = {x \in payments : x.player_id # player_id}
    /\ UNCHANGED <<players, sessions, courts, attendances, refunds, next_id>>

\* what get_total_charges, get_total_payments and get_balance do to the tables
get_balance_rows(player_id) ==
    /\ player_id \in DOMAIN players
    /\ UNCHANGED <<players, sessions, courts, attendances, payments, refunds, next_id>>

\* Player.to_dict(): the three money figures
to_dict(player_id) ==
    [op |-> "to_dict", player_id |-> player_id,
     total_charges |-> get_total_charges(player_id)',
     total_payments |-> get_total_payments(player_id)',
     balance |-> get_balance(player_id)']

CallToDict(player_id) ==
    /\ get_balance_rows(player_id)
    /\ last' = to_dict(player_id)
    /\ UNCHANGED requests

NextRead ==
    /\ UNCHANGED birdie_bank
    /\ \/ \E p \in Players : CallToDict(p)
       \/ /\ last' = NoResponse
          /\ UNCHANGED requests
          /\ \/ next_id.session <= CostSessions /\ add_session(1, 200, OneCourt)
             \/ \E p \in Players, s \in SessionIds, st \in {"YES", "NO"} : update_attendance(p, s, st)
             \/ \E p \in Players, a \in PaymentAmounts : add_payment(p, a, "Zelle")
             \/ \E id \in 1..MaxPayments : delete_payment(id)

SpecRead == Init /\ [][NextRead]_vars

\* ---------------------------------------------------------- the delete slice
\* Sessions and players are deleted while they have courts, votes, payments
\* and refunds.

NextDelete ==
    /\ UNCHANGED <<birdie_bank, requests, last>>
    /\ \/ add_session(1, 200, OneCourt)
       \/ \E p \in Players, s \in SessionIds : update_attendance(p, s, "YES")
       \/ \E p \in Players : add_payment(p, 1500, "Zelle")
       \/ \E s \in SessionIds : add_dropout_refund(s, 1, 500)
       \/ \E id \in 1..MaxRefunds : delete_dropout_refund(id)
       \/ \E s \in SessionIds : delete_session(s)
       \/ \E p \in Players : delete_player(p)

SpecDelete == Init /\ [][NextDelete]_vars

\* ----------------------------------------------------- the birdie bank slice

NextBirdie ==
    /\ UNCHANGED <<requests, last>>
    /\ \/ \E ty \in BirdieTypes, q \in BirdieQuantities :
              add_birdie_transaction(ty, q, 2500)
       \/ \E id \in 1..MaxBirdies : delete_birdie_transaction(id)

SpecBirdie == Init /\ [][NextBirdie]_vars

\* ------------------------------------------------ the concurrent refunds slice
\* Requests to add a refund run side by side with each other and with the
\* processing and deletion of refunds.

NextRefundRace ==
    /\ UNCHANGED birdie_bank
    /\ \/ /\ UNCHANGED <<requests, last>>
          /\ \/ next_id.session <= RefundSessions /\ add_session(1, 200, OneCourt)
             \/ \E id \in 1..MaxRefunds : update_dropout_refund(id, "cancel", 500)
             \/ \E id \in 1..MaxRefunds : delete_dropout_refund(id)
       \/ \E r \in DOMAIN requests, s \in SessionIds, p \in {1, 2} :
              BeginAddDropoutRefund(r, s, p, 500)
       \/ \E r \in DOMAIN requests : CommitAddDropoutRefund(r)

SpecRefundRace == Init /\ [][NextRefundRace]_vars

\* ---------------------------------------------------------- the access slice
\* The master admin and logged-in players ask to promote and demote players.

CallToggleAdmin(player_id, id) ==
    /\ player_id = None \/ (player_id \in DOMAIN players /\ players[player_id].is_active)
    /\ toggle_admin(login(player_id), id)
    /\ last' = [op |-> "toggle_admin", user_type |-> login(player_id), id |-> id]
    /\ UNCHANGED requests

NextAccess ==
    /\ UNCHANGED birdie_bank
    /\ \/ \E cur \in Players \cup {None}, id \in Players : CallToggleAdmin(cur, id)
       \/ /\ last' = NoResponse
          /\ UNCHANGED requests
          /\ \E p \in Players : delete_player(p)

SpecAccess == Init /\ [][NextAccess]_vars

\* ------------------------------------------------------ the first vote slice
\* Players whose row for a session is missing (cleared by a bulk request) open
\* their sessions page or vote, and admins open the session or vote for them.

NextFirstVote ==
    /\ UNCHANGED birdie_bank
    /\ \/ \E cur \in Players, p \in Players, s \in SessionIds :
              CallUpdatePlayerAttendance(cur, p, s, "YES")
       \/ /\ last' = NoResponse
          /\ UNCHANGED requests
          /\ \/ next_id.session <= CostSessions /\ add_session(1, 200, OneCourt)
             \/ \E p \in Players, s \in SessionIds : bulk_player_attendance(p, <<s>>, "CLEAR")
             \/ \E s \in SessionIds : bulk_attendance(<<s>>, "kid", "YES")
             \/ \E p \in Players, s \in SessionIds : update_attendance(p, s, "NO")
             \/ \E p \in Players : player_sessions(p)
             \/ \E s \in SessionIds : session_detail(s)

SpecFirstVote == Init /\ [][NextFirstVote]_vars

\* -------------------------------------------------------- the override slice
\* Admins override the category of attendance rows, and every endpoint that
\* sets a status then changes the status of those rows.

NextOverride ==
    /\ UNCHANGED <<birdie_bank, requests, last>>
    /\ \/ next_id.session <= CostSessions /\ add_session(1, 200, OneCourt)
       \/ \E p \in Players, s \in SessionIds, c \in Categories :
              update_attendance_category(p, s, c)
       \/ \E p \in Players, s \in SessionIds, st \in {"YES", "NO"} : update_attendance(p, s, st)
       \/ \E cur \in Players, p \in Players, s \in SessionIds, st \in {"YES", "NO"} :
              update_player_attendance(cur, p, s, st)
       \/ \E s \in SessionIds, st \in {"YES", "NO"} : bulk_attendance(<<s>>, "all", st)
       \/ \E p \in Players, s \in SessionIds, st \in {"YES", "NO"} :
              bulk_player_attendance(p, <<s>>, st)

SpecOverride == Init /\ [][NextOverride]_vars

\* ================================================================ claims

\* the amounts of player p's payment rows, added up row by row in id order
RECURSIVE PaymentsUpTo(_, _)
PaymentsUpTo(p, id) ==
    IF id = 0 THEN 0
    ELSE PaymentsUpTo(p, id - 1)
         + (IF \E x \in payments : x.id = id /\ x.player_id = p
            THEN (CHOOSE x \in payments : x.id = id).amount ELSE 0)

\* C1: in every reachable store, the balance of every player is the player's
\* total charges minus the sum of the amounts of all of the player's payment
\* rows (refunds, being negative, add to the balance), to the cent.
C1_BalanceIsChargesMinusPayments ==
    \A p \in Players :
        get_balance(p) = get_total_charges(p) - PaymentsUpTo(p, next_id.payment - 1)

\* a regular player who attends a session with courts holds a payment and a credit
C1_Witness ==
    /\ \E x, y \in payments : x.player_id = 1 /\ y.player_id = 1 /\ x.amount > 0 /\ y.amount < 0
    /\ \E a \in BagToSet(attendances) :
           a.player_id = 1 /\ a.status = "YES" /\ get_total_cost(a.session_id) > 0
    /\ get_balance(1) # 0
    /\ get_balance(1) # get_total_charges(1)

\* the charge of the Cost Calculator for one attendance: the kid flat rate, or
\* the session's cost per player as already rounded
SessionCharge(a) ==
    IF a.category = "kid" THEN KID_FLAT_RATE ELSE get_cost_per_player(a.session_id)

\* C2: a player's total charges are the sum, over the player's YES attendances,
\* of the rounded per-session charge (11.00 for a kid, else cost_per_player).
C2_ChargesAreSumOfSessionCharges ==
    \A p \in Players :
        get_total_charges(p) =
            BagSum(attendances,
                   [a \in {x \in BagToSet(attendances) : x.player_id = p /\ x.status = "YES"}
                       |-> SessionCharge(a)])

\* the YES rows of session s, kids included, counted copy by copy
YesCount(s) ==
    BagCardinality([a \in {x \in BagToSet(attendances) : x.session_id = s /\ x.status = "YES"}
                        |-> attendances[a]])

Abs(x) == IF x < 0 THEN -x ELSE x

\* C3: cost_per_player is 0 for a session nobody attends; otherwise it is the
\* cent nearest to total_cost / attendee_count + birdie_cost, every YES row
\* counted; with no courts and an attendee it is birdie_cost alone.
C3_CostPerPlayer ==
    \A s \in DOMAIN sessions :
        LET n == YesCount(s)
            c == get_cost_per_player(s)
        IN  /\ n = 0 => c = 0
            /\ n > 0 => 2 * Abs(c * n - (get_total_cost(s) + sessions[s].birdie_cost * n)) <= n
            /\ n > 0 /\ CourtsOf(s) = {} => c = sessions[s].birdie_cost

\* three attend, a kid among them, and the court cost does not divide evenly
C3_Witness ==
    \E s \in DOMAIN sessions :
        /\ YesCount(s) = 3
        /\ \E a \in BagToSet(attendances) :
               a.session_id = s /\ a.status = "YES" /\ a.category = "kid"
        /\ get_total_cost(s) = 1000
        /\ sessions[s].birdie_cost = 200
        /\ get_cost_per_player(s) = 533

\* the cost of the courts of session s, kind by kind
CourtCostByKind(s) ==
    Sum([k \in CourtKinds |->
            k.cost * CopiesIn([session_id |-> s, cost |-> k.cost,
                               court_type |-> k.court_type], courts)])

\* C4: after any add_session and edit_session, the total cost of every session
\* is the sum of the cost of the court rows that belong to it (0 with none),
\* and those rows are the ones of one form: no row of an earlier edit is left.
C4_TotalCostIsSumOfCourts ==
    \A s \in DOMAIN sessions :
        /\ get_total_cost(s) = CourtCostByKind(s)
        /\ CourtsOf(s) = {} => get_total_cost(s) = 0
        /\ BagCardinality([c \in CourtsOf(s) |-> courts[c]]) <= MaxCourts

\* one session holds a regular and an adhoc court, the other holds none
C4_Witness ==
    /\ DOMAIN sessions = {1, 2}
    /\ get_total_cost(1) = 3000
    /\ Cardinality(CourtsOf(1)) = 2
    /\ CourtsOf(2) = {}
    /\ get_total_cost(2) = 0

KidYesCount(s) ==
    BagCardinality([a \in {x \in BagToSet(attendances) :
                              x.session_id = s /\ x.status = "YES" /\ x.category = "kid"}
                        |-> attendances[a]])

\* the scenario of the specification: courts 50 and 40, birdie 2, six regular
\* players and one kid attending session 1
ScenarioCourts ==
    SetToBag({[session_id |-> 1, cost |-> 5000, court_type |-> "regular"],
              [session_id |-> 1, cost |-> 4000, court_type |-> "regular"]})

ScenarioAttendances ==
    SetToBag({[player_id |-> p, session_id |-> 1, status |-> "YES",
               category |-> IF p = 7 THEN "kid" ELSE "regular"] : p \in 1..7})

\* C5: the total collection of a session is 11.00 for every YES attendance whose
\* per-session category is kid plus cost_per_player for every other YES
\* attendance; the scenario gives cost_per_player 14.86 and collection 100.16.
C5_TotalCollection ==
    /\ \A s \in DOMAIN sessions :
           get_total_collection(s) =
               KidYesCount(s) * KID_FLAT_RATE
                   + (YesCount(s) - KidYesCount(s)) * get_cost_per_player(s)
    /\ CostPerPlayerIn(ScenarioAttendances, ScenarioCourts, 200, 1) = 1486
    /\ TotalCollectionIn(ScenarioAttendances, ScenarioCourts, 200, 1) = 10016

\* a kid and two others attend, and the kid's flat rate is not the others' share
C5_Witness ==
    \E s \in DOMAIN sessions :
        /\ KidYesCount(s) = 1
        /\ YesCount(s) = 3
        /\ get_cost_per_player(s) \notin {0, KID_FLAT_RATE}
        /\ get_total_collection(s) = KID_FLAT_RATE + 2 * get_cost_per_player(s)

\* the number of attendance rows of player p in session s
RowCount(p, s) == BagCount(attendances, AttendancesOf(p, s))

\* C6: whatever attendance-creating operations run (add_session, session_detail,
\* player_sessions, update_attendance, update_player_attendance,
\* update_attendance_category, bulk_attendance and bulk_player_attendance, the
\* bulk ones also with the same session id twice), no (player, session) pair
\* ever has more than one attendance row.
C6_OneRowPerPlayerAndSession ==
    \A p \in Players, s \in SessionIds : RowCount(p, s) <= 1

\* two requests for the same pair have both committed onto a pair that had no
\* row when each looked, and the pair has one row
C6_Witness ==
    \E r1, r2 \in DOMAIN requests :
        /\ r1 # r2
        /\ requests[r1].pc = "done" /\ requests[r1].code = 200
        /\ requests[r2].pc = "done" /\ requests[r2].code = 500
        /\ requests[r1].player_id = requests[r2].player_id
        /\ requests[r1].session_id = requests[r2].session_id
        /\ RowCount(requests[r1].player_id, requests[r1].session_id) = 1

\* C7: when two upsert requests for the same pair interleave on a pair that has
\* no row, no error reaches either caller: every upsert that passed validation
\* is answered with success.
C7_RacingUpsertsBothSucceed ==
    \A r \in DOMAIN requests :
        requests[r].pc = "done" => requests[r].code \in {200, 400, 403}

\* C8: an update_attendance call that repeats the call before it, with the same
\* player, session and status, leaves the store as the first call left it, with
\* exactly one row for the pair when the first call succeeded, and returns what
\* the first call returned: the same attendee_count and cost_per_player.
C8_UpsertIsIdempotent ==
    [][(last'.op = "update_attendance" /\ last'.repeat)
          => /\ store' = store
             /\ last'.code = last.code
             /\ last'.attendee_count = last.attendee_count
             /\ last'.cost_per_player = last.cost_per_player
             /\ last.code = 200 => RowCount(last.player_id, last.session_id)' = 1]_vars

\* a repeated call that succeeded on a session with an attendee
C8_Witness ==
    /\ last.op = "update_attendance"
    /\ last.repeat
    /\ last.code = 200
    /\ last.status = "YES"
    /\ last.attendee_count >= 2
    /\ last.cost_per_player > 0
    /\ RowCount(last.player_id, last.session_id) = 1

StatusChanges == {<<"pending", "processed">>, <<"pending", "cancelled">>,
                  <<"processed", "cancelled">>}

\* C9: the status of a dropout refund only moves pending -> processed,
\* pending -> cancelled or processed -> cancelled; a cancelled refund keeps its
\* status, and action 'process' on a refund that is processed or cancelled
\* changes nothing.
C9_RefundStatusMoves ==
    [][/\ \A r \in refunds, q \in refunds' :
              (q.id = r.id /\ q.status # r.status) => <<r.status, q.status>> \in StatusChanges
       /\ \A r \in refunds, amount \in RefundAmounts :
              (r.status # "pending" /\ update_dropout_refund(r.id, "process", amount))
                  => store' = store]_vars

\* C10: action 'process' on a pending refund sets its status to processed and
\* its processed_date, and adds exactly one payment: for the refund's player,
\* of amount -refund_amount, of method 'Refund', with notes naming the date of
\* the session; every other payment stays as it was.
C10_ProcessCreditsRefundAmount ==
    [][\A r \in refunds, amount \in RefundAmounts :
           (r.status = "pending" /\ update_dropout_refund(r.id, "process", amount))
               => /\ \E q \in refunds' :
                         /\ q = [r EXCEPT !.status = "processed", !.processed_date = q.processed_date]
                         /\ q.processed_date # None
                  /\ payments \subseteq payments'
                  /\ \E x \in payments' \ payments :
                         /\ payments' \ payments = {x}
                         /\ x.player_id = r.player_id
                         /\ x.amount = 0 - r.refund_amount
                         /\ x.method = "Refund"
                         /\ x.notes = sessions[r.session_id].date]_vars

\* a processed refund whose amount differs from the suggestion, its credit, and
\* an ordinary payment next to it
C10_Witness ==
    \E r \in refunds :
        /\ r.status = "processed"
        /\ r.processed_date # None
        /\ r.suggested_amount > 0
        /\ r.suggested_amount # r.refund_amount
        /\ \E x \in payments : x.method = "Refund" /\ x.amount = 0 - r.refund_amount
                                   /\ x.player_id = r.player_id
        /\ \E y \in payments : y.method = "Zelle"
        /\ Cardinality(payments) = 2

\* the payments that processing refund r added
CreditsOf(r) == {x \in payments : x.credit_of = r.id}

\* C11: cancelling a processed refund sets its status to cancelled and deletes
\* a payment that its own processing added (one is still in the table), and no
\* other payment, also when the player has another processed refund for a
\* session of the same date and when the session's date was edited after
\* processing.
C11_CancelDeletesOwnPayment ==
    [][\A r \in refunds, amount \in RefundAmounts :
           (/\ r.status = "processed"
            /\ CreditsOf(r) # {}
            /\ update_dropout_refund(r.id, "cancel", amount))
               => /\ [r EXCEPT !.status = "cancelled"] \in refunds'
                  /\ \E x \in CreditsOf(r) : payments' = payments \ {x}]_vars

\* C12: action 'update' with a new amount on a processed refund whose credit is
\* in the table leaves the number of payments as it was and sets the amount of
\* that credit to minus the new amount, so that the player's total payments
\* move by old amount - new amount.
C12_UpdateAdjustsOwnPayment ==
    [][\A r \in refunds, amount \in RefundAmounts :
           (/\ r.status = "processed"
            /\ CreditsOf(r) # {}
            /\ update_dropout_refund(r.id, "update", amount))
               => /\ Cardinality(payments') = Cardinality(payments)
                  /\ \E x \in CreditsOf(r) :
                         /\ [x EXCEPT !.amount = 0 - amount] \in payments'
                         /\ \A y \in payments \ {x} : y \in payments'
                  /\ get_total_payments(r.player_id)' - get_total_payments(r.player_id)
                         = r.refund_amount - amount]_vars

\* C20: cancelling a processed refund for which no matching payment is found
\* still completes: the refund becomes cancelled, no payment is deleted or
\* changed, and the request is answered with a redirect that flashes a warning.
C20_CancelWithoutPaymentCompletes ==
    [][\A r \in refunds, amount \in RefundAmounts :
           (/\ r.status = "processed"
            /\ RefundPayments(r) = {}
            /\ CallUpdateDropoutRefund(r.id, "cancel", amount))
               => /\ refunds' = (refunds \ {r}) \cup {[r EXCEPT !.status = "cancelled"]}
                  /\ payments' = payments
                  /\ last'.code = 302
                  /\ last'.category = "error"
                  /\ last'.flash = "could not find payment record"]_vars

\* a refund cancelled with the warning while the credit of its processing is
\* still in the table
C20_Witness ==
    /\ last.op = "update_dropout_refund"
    /\ last.action = "cancel"
    /\ last.category = "error"
    /\ \E r \in refunds : r.id = last.id /\ r.status = "cancelled" /\ CreditsOf(r) # {}

\* C13: a refund is not deducted before it is processed: add_dropout_refund and
\* action 'update' on a pending refund leave the payments table, hence every
\* player's total payments, as it was; the refund that add_dropout_refund
\* stores is pending, carries calculate_suggested_refund() of that moment as
\* suggested_amount and the operator's value as refund_amount, and 'update'
\* changes refund_amount only.
C13_NoDeductionBeforeProcessing ==
    [][/\ \A s \in SessionIds, p \in Players, amount \in RefundAmounts :
              add_dropout_refund(s, p, amount)
                  => /\ payments' = payments
                     /\ \A q \in Players : get_total_payments(q)' = get_total_payments(q)
                     /\ \A r \in refunds' \ refunds :
                            /\ r.status = "pending"
                            /\ r.suggested_amount = calculate_suggested_refund(s)
                            /\ r.refund_amount = amount
       /\ \A r \in refunds, amount \in RefundAmounts :
              (r.status = "pending" /\ update_dropout_refund(r.id, "update", amount))
                  => /\ payments' = payments
                     /\ \A q \in Players : get_total_payments(q)' = get_total_payments(q)
                     /\ refunds' = (refunds \ {r}) \cup {[r EXCEPT !.refund_amount = amount]}]_vars

\* a pending refund whose amount was updated and differs from the suggestion,
\* while its player has no refund payment
C13_Witness ==
    \E r \in refunds :
        /\ r.status = "pending"
        /\ r.refund_amount = 700
        /\ r.suggested_amount = 333
        /\ \A x \in payments : x.method # "Refund"
        /\ get_total_payments(r.player_id) = 1500

\* the number of players whose row for session s has the given status
StatusCount(s, status) ==
    Cardinality({p \in Players : \E a \in AttendancesOf(p, s) : a.status = status})

\* C14: calculate_suggested_refund is cost_per_player when the FILLIN rows are
\* at least as many as the DROPOUT rows and there is one; otherwise it is the
\* cent nearest to total_cost / attendee_count, without the birdie cost, when
\* somebody attends, and 0 when nobody does.
C14_SuggestedRefund ==
    \A s \in DOMAIN sessions :
        LET fillin == StatusCount(s, "FILLIN")
            dropout == StatusCount(s, "DROPOUT")
            n == StatusCount(s, "YES")
            v == calculate_suggested_refund(s)
        IN  IF fillin >= dropout /\ fillin > 0 THEN v = get_cost_per_player(s)
            ELSE IF n > 0 THEN 2 * Abs(v * n - CourtCostByKind(s)) <= n
            ELSE v = 0

\* a dropout nobody filled in for, in a session with courts, a birdie cost and
\* attendees: the suggestion is the court share, below the cost per player
C14_Witness ==
    \E s \in DOMAIN sessions :
        /\ StatusCount(s, "DROPOUT") = 1
        /\ StatusCount(s, "FILLIN") = 0
        /\ StatusCount(s, "YES") = 2
        /\ sessions[s].birdie_cost = 200
        /\ calculate_suggested_refund(s) = 1500
        /\ get_cost_per_player(s) = 1700

\* C19: update_attendance_category with a category among regular, adhoc, kid
\* changes the category of the attendance row of the named player and session
\* and nothing else: the players table, the row's status and every other row
\* stay (a pair without a row gets a NO row of that category); with any other
\* category the request is answered 400 and nothing changes.
C19_CategoryOverrideFrame ==
    [][\A p \in Players, s \in SessionIds, c \in Categories \cup {"child"} :
           update_attendance_category(p, s, c)
               => /\ UNCHANGED <<players, sessions, courts, payments, refunds, next_id>>
                  /\ \A q \in Players, u \in SessionIds :
                         <<q, u>> # <<p, s>> =>
                             \A a \in AttendancesOf(q, u) :
                                 CopiesIn(a, attendances') = CopiesIn(a, attendances)
                  /\ BagCardinality(attendances') =
                         BagCardinality(attendances)
                             + (IF AttendancesOf(p, s) = {} /\ attendances' # attendances
                                THEN 1 ELSE 0)
                  /\ \A a \in AttendancesOf(p, s) :
                         \/ attendances' = attendances
                         \/ CopiesIn([a EXCEPT !.category = c], attendances') = 1
                  /\ AttendancesOf(p, s) = {} =>
                         \A a \in BagToSet(attendances') :
                             (a.player_id = p /\ a.session_id = s)
                                 => a.status = "NO" /\ a.category = c
                  /\ c \notin Categories =>
                         /\ update_attendance_category_code(p, s, c) = 400
                         /\ attendances' = attendances]_vars

\* a row that is not NO whose category differs from its player's base category
C19_Witness ==
    \E a \in BagToSet(attendances) :
        /\ a.status = "YES"
        /\ a.category = "kid"
        /\ players[a.player_id].category = "regular"

\* C16: in every reachable state the status of every attendance row is one of
\* YES, NO, TENTATIVE, DROPOUT, FILLIN, whichever handler wrote it and whatever
\* status the bulk requests carried.
C16_StatusesAreRecognised ==
    \A a \in BagToSet(attendances) : a.status \in AdminStatuses

\* C15: an upsert whose status the caller may not set is answered with an error
\* and changes nothing: the self-service one takes YES, NO and TENTATIVE only
\* (so it never writes DROPOUT or FILLIN), the admin one the five statuses.
C15_ForbiddenStatusRejected ==
    [][/\ (last'.op = "update_player_attendance" /\ last'.status \notin PlayerStatuses)
              => store' = store /\ last'.code \in {400, 403}
       /\ (last'.op = "update_attendance" /\ last'.status \notin AdminStatuses)
              => store' = store /\ last'.code = 400
       /\ last'.op = "update_player_attendance"
              => \A a \in BagToSet(attendances') :
                     a.status \in {"DROPOUT", "FILLIN"} => CopiesIn(a, attendances) = 1]_vars

\* a player asked for DROPOUT for themselves on an open session, got 400, and
\* their row is as it was
C15_Witness ==
    /\ last.op = "update_player_attendance"
    /\ last.status = "DROPOUT"
    /\ last.current_player_id = last.player_id
    /\ last.code = 400
    /\ \E a \in AttendancesOf(last.player_id, last.session_id) : a.status = "YES"

\* C17: a self-service request of player P for a player T that is neither P nor
\* managed by P is rejected and leaves the store as it was, the attendance
\* update with 403 and the payment with an error message.
C17_OthersDataUntouched ==
    [][(/\ last'.op \in {"update_player_attendance", "player_payments"}
        /\ last'.player_id # last'.current_player_id
        /\ players[last'.player_id].managed_by # last'.current_player_id)
           => /\ store' = store
              /\ last'.op = "update_player_attendance" => last'.code = 403
              /\ last'.op = "player_payments" => last'.category = "error"]_vars

\* a payment for somebody else's account was refused while the table holds
\* payments, none of them of that player
C17_Witness ==
    /\ last.op = "player_payments"
    /\ last.category = "error"
    /\ last.player_id # last.current_player_id
    /\ payments # {}
    /\ \A x \in payments : x.player_id # last.player_id
    /\ \E s \in DOMAIN sessions :
           \A a \in AttendancesOf(last.player_id, s) : a.status = "NO"

\* C18: an upsert that passes validation and names a player or a session that
\* does not exist is answered with a not-found outcome, and no attendance row
\* refers to a player or session that does not exist.
C18_UnknownIdsAreNotFound ==
    /\ (/\ last.op \in {"update_attendance", "update_player_attendance"}
        /\ last.code \notin {400, 403}
        /\ (last.player_id \notin Players \/ last.session_id \notin DOMAIN sessions))
           => last.code = 404
    /\ \A a \in BagToSet(attendances) :
           a.player_id \in Players /\ a.session_id \in DOMAIN sessions

\* C21: every payment with a negative amount was added by the refund flow:
\* it has method 'Refund' and is the credit of a refund's processing; payments
\* entered through add_payment or player_payments are never negative.
C21_NegativeOnlyFromRefunds ==
    \A x \in payments : x.amount < 0 => x.method = "Refund" /\ x.credit_of # None

\* C22: computing a player's total charges, total payments and balance is a
\* pure read: the step leaves every table as it was, and the figures returned
\* are those of the rows now in the tables, whatever requests came before.
C22_BalanceIsPureRead ==
    [][last'.op = "to_dict"
          => /\ store' = store
             /\ last'.total_payments = PaymentsUpTo(last'.player_id, next_id.payment - 1)
             /\ last'.total_charges = get_total_charges(last'.player_id)
             /\ last'.balance = last'.total_charges - last'.total_payments]_vars

\* the figures of a player who attends and whose one remaining payment is the
\* second of two that were entered
C22_Witness ==
    /\ last.op = "to_dict"
    /\ last.total_charges > 0
    /\ last.total_payments # 0
    /\ last.balance # 0
    /\ payments = {x \in payments : x.id = 2 /\ x.player_id = last.player_id}
    /\ payments # {}

\* every court, attendance and payment refers to rows that exist
ReferencesResolve ==
    /\ \A c \in BagToSet(courts) : c.session_id \in DOMAIN sessions
    /\ \A a \in BagToSet(attendances) :
           a.session_id \in DOMAIN sessions /\ a.player_id \in DOMAIN players
    /\ \A x \in payments : x.player_id \in DOMAIN players

\* C23: when a session is deleted none of its courts and attendances remains,
\* when a player is deleted none of the player's attendances and payments
\* remains, and so every court and attendance refers to an existing session and
\* every attendance and payment to an existing player.
C23_DeletesCascade ==
    [][/\ \A s \in DOMAIN sessions \ DOMAIN sessions' :
              /\ \A c \in BagToSet(courts') : c.session_id # s
              /\ \A a \in BagToSet(attendances') : a.session_id # s
       /\ \A p \in DOMAIN players \ DOMAIN players' :
              /\ \A a \in BagToSet(attendances') : a.player_id # p
              /\ \A x \in payments' : x.player_id # p
       /\ ReferencesResolve']_vars

\* the first session and the second player are gone, and the remaining session
\* and players still have courts, a vote and a payment
C23_Witness ==
    /\ DOMAIN sessions = {2}
    /\ DOMAIN players = {1, 3}
    /\ CourtsOf(2) # {}
    /\ \E a \in BagToSet(attendances) : a.status = "YES"
    /\ payments # {}
    /\ next_id.payment = 3

\* the quantity the transactions numbered up to id add to the stock
RECURSIVE StockUpTo(_)
StockUpTo(id) ==
    IF id = 0 THEN 0
    ELSE StockUpTo(id - 1)
         + (IF \E x \in birdie_bank : x.id = id
            THEN LET x == CHOOSE y \in birdie_bank : y.id = id
                 IN  IF x.transaction_type = "purchase" THEN x.quantity
                     ELSE IF x.transaction_type = "usage" THEN 0 - x.quantity
                     ELSE 0
            ELSE 0)

\* the cost of the purchases numbered up to id
RECURSIVE SpentUpTo(_)
SpentUpTo(id) ==
    IF id = 0 THEN 0
    ELSE SpentUpTo(id - 1)
         + (IF \E x \in birdie_bank : x.id = id /\ x.transaction_type = "purchase"
            THEN (CHOOSE y \in birdie_bank : y.id = id).cost
            ELSE 0)

\* purchases of 50 and 30 and a usage of 20, and nothing else
BirdieScenario ==
    /\ Cardinality(birdie_bank) = 3
    /\ {x.quantity : x \in {y \in birdie_bank : y.transaction_type = "purchase"}} = {50, 30}
    /\ {x.quantity : x \in {y \in birdie_bank : y.transaction_type = "usage"}} = {20}

\* C24: whatever transactions were added and deleted, the current stock is the
\* quantity of the existing purchases minus that of the existing usages (0 when
\* there is none) and the total spent is the cost of the existing purchases;
\* purchases of 50 and 30 and a usage of 20 give a stock of 60.
C24_StockFromExistingRows ==
    /\ get_current_stock = StockUpTo(next_id.birdie - 1)
    /\ get_total_spent = SpentUpTo(next_id.birdie - 1)
    /\ birdie_bank = {} => get_current_stock = 0 /\ get_total_spent = 0
    /\ BirdieScenario => get_current_stock = 60 /\ get_total_spent = 5000

\* the scenario's three transactions remain after a fourth was deleted
C24_Witness ==
    /\ BirdieScenario
    /\ next_id.birdie = 5
    /\ get_current_stock = 60

\* C25: while a session is frozen, every self-service attendance update for it,
\* for the player or a managed player and whatever the status, is answered 403
\* and leaves the attendance rows as they were.
C25_FrozenRejectsSelfService ==
    [][(/\ last'.op = "update_player_attendance"
        /\ last'.session_id \in DOMAIN sessions
        /\ sessions[last'.session_id].voting_frozen)
       => /\ last'.code = 403
          /\ attendances' = attendances]_vars

\* a player asks to change an existing vote of a managed player on a frozen
\* session with a status that is otherwise accepted
C25_Witness ==
    /\ last.op = "update_player_attendance"
    /\ last.code = 403
    /\ last.status = "NO"
    /\ last.player_id \in managed_players(last.current_player_id)
    /\ last.session_id \in DOMAIN sessions
    /\ sessions[last.session_id].voting_frozen
    /\ \E a \in BagToSet(attendances) :
           /\ a.player_id = last.player_id
           /\ a.session_id = last.session_id
           /\ a.status = "YES"

\* C26: in every reachable state a player has at most one dropout refund for a
\* session, whatever its status, also when two requests to add it run side by
\* side.
C26_OneRefundPerPair ==
    \A r1 \in refunds, r2 \in refunds :
        (r1.player_id = r2.player_id /\ r1.session_id = r2.session_id) => r1 = r2

\* C27: a request gets past the master admin gate only with user_type 'admin',
\* and a player's is_admin flag changes only in a toggle_admin request made
\* with user_type 'admin', never 'player_admin' or 'player'.
C27_OnlyMasterAdminPromotes ==
    [][/\ (last'.op = "toggle_admin" /\ master_admin_required(last'.user_type))
              => last'.user_type = "admin"
       /\ (\E p \in DOMAIN players \cap DOMAIN players' :
               players'[p].is_admin # players[p].is_admin)
              => (last'.op = "toggle_admin" /\ last'.user_type = "admin")]_vars

\* C28: whenever a step creates an attendance row for a (player, session) that
\* had none, the new row's category is the player's base category, so a kid
\* who votes first is charged as a kid.
C28_NewRowsTakeBaseCategory ==
    [][\A a \in BagToSet(attendances') :
           FirstAttendance(attendances, a.player_id, a.session_id) = NoRow
               => a.category = players[a.player_id].category]_vars

\* C29: in every reachable state the payments of method 'Refund' and the
\* processed refunds correspond one to one: a processed refund has exactly one
\* credit, for its player and of minus its refund_amount, and every 'Refund'
\* payment is the credit of a refund that exists and is processed.
C29_CreditsMatchProcessedRefunds ==
    /\ \A r \in refunds :
           r.status = "processed"
               => /\ Cardinality(CreditsOf(r)) = 1
                  /\ \A x \in CreditsOf(r) :
                         /\ x.method = "Refund"
                         /\ x.player_id = r.player_id
                         /\ x.amount = 0 - r.refund_amount
    /\ \A x \in payments :
           x.method = "Refund"
               => \E r \in refunds : r.status = "processed" /\ x.credit_of = r.id

\* C30: a step that changes the status of an existing attendance row leaves the
\* row's category as it was, so an override of the category survives every
\* later change of status.
C30_StatusChangeKeepsCategory ==
    [][\A a \in BagToSet(attendances), b \in BagToSet(attendances') :
           (/\ a.player_id = b.player_id
            /\ a.session_id = b.session_id
            /\ a.status # b.status)
               => b.category = a.category]_vars

====
